---- MODULE Spec2Model ----
(***************************************************************************)
(* Model of road_network/geo_graph.py: GeoGraph (identifier symbol tables  *)
(* and the lazily filled list of UTM points) and the GeoGraphPoints and    *)
(* GeoGraphFeatures views with their iter_index cursor.                    *)
(*                                                                         *)
(* Python lists are 0-based; sequences here are 1-based.  Symbol tables    *)
(* and cursors keep the 0-based Python values, and PyIndex converts a raw  *)
(* Python subscript into a sequence position.                              *)
(***************************************************************************)
EXTENDS Integers, Sequences, FiniteSets, TLC

(* ---------------------------------------------------------------- bounds *)
MaxPoints == 2
ExtraYield == 1
MaxThreads == 2

Ids == {"a", "b"}
PointViews == {"P1", "P2"}
FeatureViews == {"F1"}
Views == PointViews \cup FeatureViews
Loops == {1, 2}
Threads == 1..MaxThreads
RawIndexes == (0 - (MaxPoints + 1))..MaxPoints
Default == [default |-> TRUE]

SeqsUpTo(S, n) == UNION {[1..k -> S] : k \in 0..n}
\* way points: an identifier and a position (a longitude, in degrees)
WayPoints == {[id |-> "a", position |-> 3], [id |-> "b", position |-> 9],
              [id |-> "a", position |-> 9]}
\* features: an identifier and a tag sequence
RoadTags == <<[key |-> "bridge", value |-> "yes"], [key |-> "highway", value |-> "primary"]>>
FeatureLists == {<<>>,
                 <<[id |-> "a", tags |-> RoadTags], [id |-> "b", tags |-> <<>>]>>,
                 <<[id |-> "a", tags |-> RoadTags], [id |-> "a", tags |-> <<>>]>>}
Snapshots == [header : {"hdr"}, bounds : {"bbox"},
              points : SeqsUpTo(WayPoints, MaxPoints),
              features : FeatureLists]

(* ------------------------------------------------- external collaborators *)
\* geodesy.utm.fromMsg: a deterministic function of the geographic position
\* (here a longitude in degrees): the UTM zone and the offset inside the zone.
project(position) ==
    [zone |-> ((position + 180) \div 6) + 1, easting |-> (position + 180) % 6]

\* osm_cartography.way_point.WuPoint(way_pt, utm=utm_pt)
WuPoint(way_pt, utm_pt) == [way_pt |-> way_pt, utm |-> utm_pt]

(* ---------------------------------------------------------- Python values *)
\* A Python list subscript: the sequence position it denotes, 0 for IndexError.
PyIndex(n, index) ==
    IF 0 <= index /\ index < n THEN index + 1
    ELSE IF 0 - n <= index /\ index < 0 THEN n + index + 1
    ELSE 0

\* "if not utm_pt" that never finds a cached value
TruthyNever(slot) == FALSE

\* A list slot holds None (<<>>) or one UTM point (<<utm>>); "not utm_pt".
\* A UTMPoint object defines neither __nonzero__ nor __len__, so it is true.
Truthy(slot) == slot # <<>>

\* dict.get(key): <<value>>, or <<>> for None.
DictGet(d, key) == IF key \in DOMAIN d THEN <<d[key]>> ELSE <<>>

(* ------------------------------------------------------- GeoGraph.__init__ *)
\* the loop, numbering the entities from 1
RECURSIVE SymbolTableFromOne(_, _)
SymbolTableFromOne(entities, n) ==
    IF n = 0 THEN [k \in {} |-> 0]
    ELSE LET t == SymbolTableFromOne(entities, n - 1)
         IN [k \in DOMAIN t \cup {entities[n].id} |->
                IF k = entities[n].id THEN n ELSE t[k]]

\* The symbol-table loop: for i in xrange(n): table[entities[i].id.uuid] = i
RECURSIVE SymbolTable(_, _)
SymbolTable(entities, n) ==
    IF n = 0 THEN [k \in {} |-> 0]
    ELSE LET t == SymbolTable(entities, n - 1)
         IN [k \in DOMAIN t \cup {entities[n].id} |->
                IF k = entities[n].id THEN n - 1 ELSE t[k]]

\* a list built of default UTM points instead of None
BlankUtmPoints(n) == [i \in 1..n |-> <<[zone |-> 0, easting |-> 0]>>]

EmptyUtmPoints(n) == [i \in 1..n |-> <<>>]

VARIABLES
    gmap,           \* the GeographicMap message (the snapshot)
    constructed,    \* GeoGraph.__init__ has returned
    way_point_ids,  \* GeoGraph.way_point_ids
    n_points,       \* GeoGraph.n_points
    utm_points,     \* GeoGraph.utm_points
    feature_ids,    \* GeoGraph.feature_ids
    n_features,     \* GeoGraph.n_features
    iter_index,     \* view -> its iter_index attribute, once __iter__ has set it
    loops,          \* for-loops of callers: the iterator each holds and what it got
    threads,        \* callers inside _get_point_with_utm, statement by statement
    ret,            \* the last call and its outcome
    projCalls,      \* per slot: number of geodesy.utm.fromMsg calls
    slotWrites,     \* per slot: number of assignments to utm_points[index]
    began           \* per loop: the cursor its view had when the loop began

vars == <<gmap, constructed, way_point_ids, n_points, utm_points, feature_ids,
          n_features, iter_index, loops, threads, ret, projCalls, slotWrites, began>>

graphVars == <<constructed, way_point_ids, n_points, feature_ids, n_features>>
cacheVars == <<utm_points, projCalls, slotWrites>>

\* ret: the call, how it ended, what it returned, and the slots it changed
NoRet == [op |-> "none", self |-> "none", arg |-> <<>>, status |-> "none", val |-> <<>>,
          filled |-> {}]
Ret(op, self, arg, status, val, filled) ==
    [op |-> op, self |-> self, arg |-> arg, status |-> status, val |-> val,
     filled |-> filled]

IdleLoop == [state |-> "idle", view |-> "none", got |-> <<>>]
IdleThread == [pc |-> "idle", index |-> 0, way_pt |-> <<>>, utm_pt |-> <<>>,
               status |-> "none", val |-> <<>>]

(* ---------------------------------------------- GeoGraph._get_point_with_utm *)
Outcome(status, val, cache, projected, written) ==
    [status |-> status, val |-> val, utm_points |-> cache,
     projected |-> projected, written |-> written]

\* the assignment, into the slot after the one asked for
StoreNextSlot(cache, index, utm_pt) ==
    [cache EXCEPT ![(PyIndex(Len(cache), index) % Len(cache)) + 1] = <<utm_pt>>]

\* line 110: self.utm_points[index] = utm_pt
StoreSlot(cache, index, utm_pt) ==
    [cache EXCEPT ![PyIndex(Len(cache), index)] = <<utm_pt>>]

\* lines 106-111 run by one caller without interruption
get_point_with_utm(points, cache, index) ==
    IF PyIndex(Len(points), index) = 0 \/ PyIndex(Len(cache), index) = 0
    THEN Outcome("IndexError", <<>>, cache, {}, {})
    ELSE LET way_pt == points[PyIndex(Len(points), index)]
             slot == cache[PyIndex(Len(cache), index)]
         IN IF ~Truthy(slot)
            THEN Outcome("ok", <<WuPoint(way_pt, project(way_pt.position))>>,
                         StoreSlot(cache, index, project(way_pt.position)),
                         {PyIndex(Len(cache), index)}, {PyIndex(Len(cache), index)})
            ELSE Outcome("ok", <<WuPoint(way_pt, slot[1])>>, cache, {}, {})

(* ------------------------------------------------------------ GeoGraphPoints *)
GeoGraphPoints_contains(ids, item) == item \in DOMAIN ids

GeoGraphPoints_getitem(ids, points, cache, key) ==
    IF key \notin DOMAIN ids
    THEN Outcome("KeyError", <<>>, cache, {}, {})
    ELSE get_point_with_utm(points, cache, ids[key])

\* __iter__ that sets the cursor only when the view has none yet
GeoGraphPoints_iterOnce(index) == IF index = <<>> THEN 0 ELSE index[1]

GeoGraphPoints_iter(index) == 0

GeoGraphPoints_len(points) == Len(points)

\* get() that tests "if index:" instead of "if index != None"
GeoGraphPoints_getTruthy(ids, points, cache, key, default) ==
    LET index == DictGet(ids, key)
    IN IF index # <<>> /\ index[1] # 0
       THEN get_point_with_utm(points, cache, index[1])
       ELSE Outcome("ok", <<default>>, cache, {}, {})

\* get() with way_point_ids.get(key, 0)
GeoGraphPoints_getZero(ids, points, cache, key, default) ==
    get_point_with_utm(points, cache, IF key \in DOMAIN ids THEN ids[key] ELSE 0)

GeoGraphPoints_get(ids, points, cache, key, default) ==
    LET index == DictGet(ids, key)
    IN IF index # <<>>
       THEN get_point_with_utm(points, cache, index[1])
       ELSE Outcome("ok", <<default>>, cache, {}, {})

\* next() that reads the point at the cursor it has just advanced
GeoGraphPoints_nextAhead(i, n, points, cache) ==
    IF i >= n
    THEN [iter_index |-> i, out |-> Outcome("StopIteration", <<>>, cache, {}, {})]
    ELSE [iter_index |-> i + 1, out |-> get_point_with_utm(points, cache, i + 1)]

\* the cursor after next(), and the outcome of next()
GeoGraphPoints_next(i, n, points, cache) ==
    IF i >= n
    THEN [iter_index |-> i, out |-> Outcome("StopIteration", <<>>, cache, {}, {})]
    ELSE [iter_index |-> i + 1, out |-> get_point_with_utm(points, cache, i)]

(* ---------------------------------------------------------- GeoGraphFeatures *)
GeoGraphFeatures_contains(ids, item) == item \in DOMAIN ids

GeoGraphFeatures_getitem(ids, features, cache, key) ==
    IF key \notin DOMAIN ids
    THEN Outcome("KeyError", <<>>, cache, {}, {})
    ELSE IF PyIndex(Len(features), ids[key]) = 0
    THEN Outcome("IndexError", <<>>, cache, {}, {})
    ELSE Outcome("ok", <<features[PyIndex(Len(features), ids[key])]>>, cache, {}, {})

GeoGraphFeatures_iter(index) == 0

\* __len__ copied from GeoGraphPoints: len(self.gmap.gmap.points)
GeoGraphFeatures_lenPoints(features) == Len(gmap.points)

GeoGraphFeatures_len(features) == Len(features)

\* next() that materialises a way point, as GeoGraphPoints.next does
GeoGraphFeatures_nextPoint(i, n, features, cache) ==
    IF i >= n
    THEN [iter_index |-> i, out |-> Outcome("StopIteration", <<>>, cache, {}, {})]
    ELSE [iter_index |-> i + 1, out |-> get_point_with_utm(gmap.points, cache, i)]

\* next() that advances the cursor before it tests for the end
GeoGraphFeatures_nextPastEnd(i, n, features, cache) ==
    IF i >= n
    THEN [iter_index |-> i + 1, out |-> Outcome("StopIteration", <<>>, cache, {}, {})]
    ELSE [iter_index |-> i + 1,
          out |-> Outcome("ok", <<features[PyIndex(Len(features), i)]>>, cache, {}, {})]

GeoGraphFeatures_next(i, n, features, cache) ==
    IF i >= n
    THEN [iter_index |-> i, out |-> Outcome("StopIteration", <<>>, cache, {}, {})]
    ELSE IF PyIndex(Len(features), i) = 0
    THEN [iter_index |-> i + 1, out |-> Outcome("IndexError", <<>>, cache, {}, {})]
    ELSE [iter_index |-> i + 1,
          out |-> Outcome("ok", <<features[PyIndex(Len(features), i)]>>, cache, {}, {})]

(* ------------------------------------------------------------------ actions *)
Count(counts, hit) == [i \in DOMAIN counts |-> counts[i] + (IF i \in hit THEN 1 ELSE 0)]

\* the slots a call changes
Filled(cache) == {i \in DOMAIN utm_points : cache[i] # utm_points[i]}

\* the effect of an outcome on the cache and on the call counters
Apply(out) ==
    /\ utm_points' = out.utm_points
    /\ projCalls' = Count(projCalls, out.projected)
    /\ slotWrites' = Count(slotWrites, out.written)

GeoGraphInit ==
    /\ ~constructed
    /\ constructed' = TRUE
    /\ n_points' = Len(gmap.points)
    /\ way_point_ids' = SymbolTable(gmap.points, Len(gmap.points))
    /\ utm_points' = EmptyUtmPoints(Len(gmap.points))
    /\ n_features' = Len(gmap.features)
    /\ feature_ids' = SymbolTable(gmap.features, Len(gmap.features))
    /\ projCalls' = [i \in 1..Len(gmap.points) |-> 0]
    /\ slotWrites' = [i \in 1..Len(gmap.points) |-> 0]
    /\ ret' = Ret("GeoGraph", "graph", <<>>, "ok", <<>>, {})
    /\ UNCHANGED <<gmap, iter_index, loops, threads, began>>

\* bounds() that returns the message header
GraphBoundsHeader ==
    /\ constructed
    /\ ret' = Ret("bounds", "graph", <<>>, "ok", <<gmap.header>>, {})
    /\ UNCHANGED <<gmap, graphVars, cacheVars, iter_index, loops, threads, began>>

GraphBounds ==
    /\ constructed
    /\ ret' = Ret("bounds", "graph", <<>>, "ok", <<gmap.bounds>>, {})
    /\ UNCHANGED <<gmap, graphVars, cacheVars, iter_index, loops, threads, began>>

GraphHeader ==
    /\ constructed
    /\ ret' = Ret("header", "graph", <<>>, "ok", <<gmap.header>>, {})
    /\ UNCHANGED <<gmap, graphVars, cacheVars, iter_index, loops, threads, began>>

PointWithCoordinate(index) ==
    /\ constructed
    /\ LET out == get_point_with_utm(gmap.points, utm_points, index)
       IN /\ Apply(out)
          /\ ret' = Ret("_get_point_with_utm", "graph", <<index>>, out.status, out.val, Filled(out.utm_points))
    /\ UNCHANGED <<gmap, graphVars, iter_index, loops, threads, began>>

PointsContains(v, item) ==
    /\ constructed
    /\ ret' = Ret("__contains__", v, <<item>>, "ok",
                  <<GeoGraphPoints_contains(way_point_ids, item)>>, {})
    /\ UNCHANGED <<gmap, graphVars, cacheVars, iter_index, loops, threads, began>>

PointsGetItem(v, key) ==
    /\ constructed
    /\ LET out == GeoGraphPoints_getitem(way_point_ids, gmap.points, utm_points, key)
       IN /\ Apply(out)
          /\ ret' = Ret("__getitem__", v, <<key>>, out.status, out.val, Filled(out.utm_points))
    /\ UNCHANGED <<gmap, graphVars, iter_index, loops, threads, began>>

PointsLen(v) ==
    /\ constructed
    /\ ret' = Ret("__len__", v, <<>>, "ok", <<GeoGraphPoints_len(gmap.points)>>, {})
    /\ UNCHANGED <<gmap, graphVars, cacheVars, iter_index, loops, threads, began>>

PointsGet(v, key) ==
    /\ constructed
    /\ LET out == GeoGraphPoints_get(way_point_ids, gmap.points, utm_points, key, Default)
       IN /\ Apply(out)
          /\ ret' = Ret("get", v, <<key>>, out.status, out.val, Filled(out.utm_points))
    /\ UNCHANGED <<gmap, graphVars, iter_index, loops, threads, began>>

FeaturesContains(v, item) ==
    /\ constructed
    /\ ret' = Ret("__contains__", v, <<item>>, "ok",
                  <<GeoGraphFeatures_contains(feature_ids, item)>>, {})
    /\ UNCHANGED <<gmap, graphVars, cacheVars, iter_index, loops, threads, began>>

FeaturesGetItem(v, key) ==
    /\ constructed
    /\ LET out == GeoGraphFeatures_getitem(feature_ids, gmap.features, utm_points, key)
       IN /\ Apply(out)
          /\ ret' = Ret("__getitem__", v, <<key>>, out.status, out.val, Filled(out.utm_points))
    /\ UNCHANGED <<gmap, graphVars, iter_index, loops, threads, began>>

FeaturesLen(v) ==
    /\ constructed
    /\ ret' = Ret("__len__", v, <<>>, "ok", <<GeoGraphFeatures_len(gmap.features)>>, {})
    /\ UNCHANGED <<gmap, graphVars, cacheVars, iter_index, loops, threads, began>>

\* "for x in view:" begins: iter(view) calls view.__iter__(), which returns view
ViewIter(v) ==
    IF v \in PointViews
    THEN GeoGraphPoints_iter(DictGet(iter_index, v))
    ELSE GeoGraphFeatures_iter(DictGet(iter_index, v))

BeginIteration(c, v) ==
    /\ constructed
    /\ iter_index' = [w \in DOMAIN iter_index \cup {v} |->
                        IF w = v THEN ViewIter(v) ELSE iter_index[w]]
    /\ loops' = [loops EXCEPT ![c] = [state |-> "running", view |-> v, got |-> <<>>]]
    /\ ret' = Ret("__iter__", v, <<c>>, "ok", <<>>, {})
    /\ UNCHANGED <<gmap, graphVars, cacheVars, threads>>

ForBegin(c, v) == BeginIteration(c, v) /\ UNCHANGED began

\* the same call, remembering the cursor the view had before it
ForBeginAgain(c, v) ==
    BeginIteration(c, v) /\ began' = [began EXCEPT ![c] = DictGet(iter_index, v)]

\* next() of a point view reading a cursor kept once for all point views
ViewNextShared(v) ==
    IF v \in PointViews
    THEN GeoGraphPoints_next(IF "P1" \in DOMAIN iter_index
                             THEN iter_index["P1"] ELSE iter_index[v],
                             n_points, gmap.points, utm_points)
    ELSE GeoGraphFeatures_next(iter_index[v], n_features, gmap.features, utm_points)

ViewNext(v) ==
    IF v \in PointViews
    THEN GeoGraphPoints_next(iter_index[v], n_points, gmap.points, utm_points)
    ELSE GeoGraphFeatures_next(iter_index[v], n_features, gmap.features, utm_points)

ViewSize(v) == IF v \in PointViews THEN n_points ELSE n_features

\* the loop asks its iterator for the next element
ForNext(c) ==
    /\ constructed
    /\ loops[c].state \in {"running", "done"}
    /\ LET v == loops[c].view
           r == ViewNext(v)
       IN /\ r.out.status = "ok" => Len(loops[c].got) < ViewSize(v) + ExtraYield
          /\ iter_index' = [iter_index EXCEPT ![v] = r.iter_index]
          /\ Apply(r.out)
          /\ loops' = [loops EXCEPT ![c] =
                        IF r.out.status = "ok"
                        THEN [@ EXCEPT !.got = Append(@, r.out.val[1])]
                        ELSE IF r.out.status = "StopIteration"
                        THEN [@ EXCEPT !.state = "done"]
                        ELSE [@ EXCEPT !.state = "failed"]]
          /\ ret' = Ret("next", v, <<c>>, r.out.status, r.out.val, Filled(r.out.utm_points))
    /\ UNCHANGED <<gmap, graphVars, threads, began>>

(* ------------------------- _get_point_with_utm, one statement at a time *)
\* lines 106-108: way_pt = points[index]; utm_pt = utm_points[index]; the test
ThreadCall(t, index) ==
    /\ constructed
    /\ threads[t].pc = "idle"
    /\ threads' = [threads EXCEPT ![t] =
         IF PyIndex(Len(gmap.points), index) = 0 \/ PyIndex(Len(utm_points), index) = 0
         THEN [pc |-> "done", index |-> index, way_pt |-> <<>>, utm_pt |-> <<>>,
               status |-> "IndexError", val |-> <<>>]
         ELSE [pc |-> IF Truthy(utm_points[PyIndex(Len(utm_points), index)])
                      THEN "return" ELSE "project",
               index |-> index,
               way_pt |-> <<gmap.points[PyIndex(Len(gmap.points), index)]>>,
               utm_pt |-> utm_points[PyIndex(Len(utm_points), index)],
               status |-> "running", val |-> <<>>]]
    /\ UNCHANGED <<gmap, graphVars, cacheVars, iter_index, loops, ret, began>>

\* line 109: utm_pt = geodesy.utm.fromMsg(way_pt.position)
ThreadProject(t) ==
    /\ threads[t].pc = "project"
    /\ threads' = [threads EXCEPT ![t].pc = "store",
                                  ![t].utm_pt = <<project(threads[t].way_pt[1].position)>>]
    /\ projCalls' = Count(projCalls, {PyIndex(Len(utm_points), threads[t].index)})
    /\ UNCHANGED <<gmap, graphVars, utm_points, slotWrites, iter_index, loops, ret, began>>

\* line 110: self.utm_points[index] = utm_pt
ThreadStore(t) ==
    /\ threads[t].pc = "store"
    /\ utm_points' = StoreSlot(utm_points, threads[t].index, threads[t].utm_pt[1])
    /\ slotWrites' = Count(slotWrites, {PyIndex(Len(utm_points), threads[t].index)})
    /\ threads' = [threads EXCEPT ![t].pc = "return"]
    /\ UNCHANGED <<gmap, graphVars, projCalls, iter_index, loops, ret, began>>

\* line 111: return WuPoint(way_pt, utm=utm_pt)
ThreadReturn(t) ==
    /\ threads[t].pc = "return"
    /\ threads' = [threads EXCEPT ![t].pc = "done", ![t].status = "ok",
                     ![t].val = <<WuPoint(threads[t].way_pt[1], threads[t].utm_pt[1])>>]
    /\ UNCHANGED <<gmap, graphVars, cacheVars, iter_index, loops, ret, began>>

(* ----------------------------------------------------------- specifications *)
InitFields ==
    /\ gmap \in Snapshots
    /\ iter_index = [w \in {} |-> 0]
    /\ loops = [c \in Loops |-> IdleLoop]
    /\ threads = [t \in Threads |-> IdleThread]
    /\ began = [c \in Loops |-> <<>>]
    /\ ret = NoRet

\* One caller and one view of each kind, starting before construction.
Init ==
    /\ InitFields
    /\ constructed = FALSE
    /\ way_point_ids = [k \in {} |-> 0]
    /\ n_points = 0
    /\ utm_points = <<>>
    /\ feature_ids = [k \in {} |-> 0]
    /\ n_features = 0
    /\ projCalls = <<>>
    /\ slotWrites = <<>>

Next ==
    \/ GeoGraphInit
    \/ GraphBounds
    \/ GraphHeader
    \/ \E index \in RawIndexes : PointWithCoordinate(index)
    \/ \E item \in Ids : PointsContains("P1", item)
    \/ \E key \in Ids : PointsGetItem("P1", key)
    \/ PointsLen("P1")
    \/ \E key \in Ids : PointsGet("P1", key)
    \/ \E item \in Ids : FeaturesContains("F1", item)
    \/ \E key \in Ids : FeaturesGetItem("F1", key)
    \/ FeaturesLen("F1")
    \/ ForBegin(1, "P1")
    \/ ForNext(1)

Spec == Init /\ [][Next]_vars

\* The state GeoGraph.__init__ leaves, for the scenarios that start after it.
InitConstructed ==
    /\ InitFields
    /\ constructed = TRUE
    /\ n_points = Len(gmap.points)
    /\ way_point_ids = SymbolTable(gmap.points, Len(gmap.points))
    /\ utm_points = EmptyUtmPoints(Len(gmap.points))
    /\ n_features = Len(gmap.features)
    /\ feature_ids = SymbolTable(gmap.features, Len(gmap.features))
    /\ projCalls = [i \in 1..Len(gmap.points) |-> 0]
    /\ slotWrites = [i \in 1..Len(gmap.points) |-> 0]

\* One caller looping over a point view or a feature view, again and again,
\* with the feature view's other operations in between.
NextRestart ==
    \/ \E v \in {"P1", "F1"} : ForBeginAgain(1, v)
    \/ ForNext(1)
    \/ \E item \in Ids : FeaturesContains("F1", item)
    \/ \E key \in Ids : FeaturesGetItem("F1", key)
    \/ FeaturesLen("F1")

SpecRestart == InitConstructed /\ [][NextRestart]_vars

\* Two callers looping over the same point view, their steps interleaved.
NextIter ==
    \/ \E c \in Loops : ForBegin(c, "P1")
    \/ \E c \in Loops : ForNext(c)

SpecIter == InitConstructed /\ [][NextIter]_vars

\* Several callers inside _get_point_with_utm at once, one call each, for
\* the points of the snapshot.
NextConc ==
    \/ \E t \in Threads, index \in 0..(n_points - 1) : ThreadCall(t, index)
    \/ \E t \in Threads : ThreadProject(t)
    \/ \E t \in Threads : ThreadStore(t)
    \/ \E t \in Threads : ThreadReturn(t)

SpecConc == InitConstructed /\ [][NextConc]_vars

(* --------------------------------------------------------------- match_tags *)
MaxTags == 2

\* line 228: road_tags = {'bridge', 'highway', 'tunnel'}
road_tags == {"bridge", "highway", "tunnel"}

TagPool == {[key |-> "bridge", value |-> "yes"],
            [key |-> "highway", value |-> "primary"],
            [key |-> "highway", value |-> "residential"],
            [key |-> "name", value |-> "main"]}
TagSets == SUBSET road_tags
\* snapshots of one feature with up to MaxTags tags
TagSnapshots == [header : {"hdr"}, bounds : {"bbox"}, points : {<<>>},
                 features : {<<[id |-> "a", tags |-> ts]>> : ts \in SeqsUpTo(TagPool, MaxTags)}]

\* the scan, keeping the last tag whose key is in tag_set
RECURSIVE MatchLastFrom(_, _, _)
MatchLastFrom(tags, k, tag_set) ==
    IF k = 0 THEN <<FALSE>>
    ELSE IF tags[k].key \in tag_set THEN << <<tags[k].key, tags[k].value>> >>
    ELSE MatchLastFrom(tags, k - 1, tag_set)
match_tagsLast(f, tag_set) == MatchLastFrom(f.tags, Len(f.tags), tag_set)

\* lines 237-240: "for tag in f.tags" from tag k on; <<v>> is "return v"
RECURSIVE MatchFrom(_, _, _)
MatchFrom(tags, k, tag_set) ==
    IF k > Len(tags) THEN <<FALSE>>
    ELSE IF tags[k].key \in tag_set THEN << <<tags[k].key, tags[k].value>> >>
    ELSE MatchFrom(tags, k + 1, tag_set)

match_tags(f, tag_set) == MatchFrom(f.tags, 1, tag_set)

MatchTags(fi, tag_set) ==
    /\ ret' = Ret("match_tags", "module", <<fi, tag_set>>, "ok",
                  match_tags(gmap.features[fi], tag_set), {})
    /\ UNCHANGED <<gmap, graphVars, cacheVars, iter_index, loops, threads, began>>

\* match_tags on the features of a message; no graph is needed.
InitTags ==
    /\ gmap \in TagSnapshots
    /\ iter_index = [w \in {} |-> 0]
    /\ loops = [c \in Loops |-> IdleLoop]
    /\ threads = [t \in Threads |-> IdleThread]
    /\ began = [c \in Loops |-> <<>>]
    /\ ret = NoRet
    /\ constructed = FALSE
    /\ way_point_ids = [k \in {} |-> 0]
    /\ n_points = 0
    /\ utm_points = <<>>
    /\ feature_ids = [k \in {} |-> 0]
    /\ n_features = 0
    /\ projCalls = <<>>
    /\ slotWrites = <<>>

NextTags ==
    \E fi \in 1..Len(gmap.features), tag_set \in TagSets : MatchTags(fi, tag_set)

SpecTags == InitTags /\ [][NextTags]_vars

(* ------------- two loops, each on a view object of its own: loop 1 on one
   point view, loop 2 on a second point view or on the feature view        *)
NextViews ==
    \/ ForBegin(1, "P1")
    \/ \E v \in {"P2", "F1"} : ForBegin(2, v)
    \/ \E c \in Loops : ForNext(c)

SpecViews == InitConstructed /\ [][NextViews]_vars

(* ------------------------------------------------------------- properties *)
TypeOK == constructed => Len(utm_points) = n_points

UniqueIds(entities) ==
    \A i, j \in 1..Len(entities) : entities[i].id = entities[j].id => i = j
PointIds == {gmap.points[i].id : i \in 1..Len(gmap.points)}
\* the WuPoint of snapshot point i: the point with the projection of its position
Projected(i) == WuPoint(gmap.points[i], project(gmap.points[i].position))
AllWuPoints == [i \in 1..Len(gmap.points) |-> Projected(i)]
ViewElements(v) == IF v \in PointViews THEN AllWuPoints ELSE gmap.features
IsPrefix(s, t) == Len(s) <= Len(t) /\ \A k \in 1..Len(s) : s[k] = t[k]
PointRetrievals == {"__getitem__", "get", "next"}

\* C1: two loops over the same point view, their __iter__ and next() calls
\* interleaved in any order: each loop's position is the number of elements
\* it has itself consumed (no step of the other loop moves it), and a loop
\* that has reached StopIteration got every point exactly once, in order.
C1_InterleavedLoopsSeeAllPoints ==
    \A c \in Loops :
        loops[c].state # "idle" =>
            /\ iter_index[loops[c].view] = Len(loops[c].got)
            /\ loops[c].state = "done" => loops[c].got = AllWuPoints

\* C2: a snapshot in which two points share an identifier never becomes a
\* constructed GeoGraph.
C2_DuplicateIdentifierAborts ==
    ~UniqueIds(gmap.points) => ~constructed

\* C3: with unique identifiers, every lookup of the identifier of point i,
\* the first one and every later one, whatever was called in between,
\* succeeds and returns point i paired with project(its position).
C3_LookupReturnsProjection ==
    (constructed /\ UniqueIds(gmap.points)) =>
        \A i \in 1..Len(gmap.points) :
            (/\ ret.op = "__getitem__"
             /\ ret.self \in PointViews
             /\ ret.arg = <<gmap.points[i].id>>)
            => (ret.status = "ok" /\ ret.val = <<Projected(i)>>)

\* a lookup answered from a slot filled earlier
C3_Witness ==
    /\ constructed /\ UniqueIds(gmap.points) /\ Len(gmap.points) >= 2
    /\ ret.op = "__getitem__" /\ ret.self \in PointViews
    /\ ret.status = "ok" /\ ret.filled = {}
    /\ \A i \in 1..Len(gmap.points) : Truthy(utm_points[i])

\* C4: over any sequence of lookups, get() calls, raw retrievals and
\* iteration steps, the projector is called at most once per slot and the
\* slot is assigned at most once: a slot is populated exactly when its one
\* projection has happened, so a later call for it neither projects nor writes.
C4_ProjectorAtMostOncePerSlot ==
    constructed =>
        \A i \in 1..n_points :
            /\ projCalls[i] <= 1
            /\ slotWrites[i] <= 1
            /\ Truthy(utm_points[i]) <=> projCalls[i] = 1

\* a retrieval of a point whose slot was already populated
C4_Witness ==
    /\ constructed
    /\ ret.op \in PointRetrievals /\ ret.self \in PointViews
    /\ ret.status = "ok" /\ ret.filled = {}
    /\ \E i \in 1..n_points : projCalls[i] = 1 /\ ret.val = <<Projected(i)>>

\* C5: callers inside _get_point_with_utm at once, their statements
\* interleaved arbitrarily: every caller that has returned got the point with
\* project(its position), and the slot of its index holds that same value;
\* no slot ever holds anything else.
C5_ConcurrentCallersAgree ==
    /\ \A t \in Threads :
          threads[t].pc = "done" =>
              /\ threads[t].status = "ok"
              /\ threads[t].val = <<Projected(PyIndex(Len(gmap.points), threads[t].index))>>
              /\ utm_points[PyIndex(Len(gmap.points), threads[t].index)]
                    = <<project(gmap.points[PyIndex(Len(gmap.points), threads[t].index)].position)>>
    /\ \A i \in 1..Len(utm_points) :
          Truthy(utm_points[i]) => utm_points[i] = <<project(gmap.points[i].position)>>

\* two callers raced on one empty slot: both projected, both have returned
C5_Witness ==
    \E t, u \in Threads :
        /\ t # u
        /\ threads[t].pc = "done" /\ threads[u].pc = "done"
        /\ threads[t].index = threads[u].index
        /\ projCalls[PyIndex(Len(gmap.points), threads[t].index)] = 2
        /\ slotWrites[PyIndex(Len(gmap.points), threads[t].index)] = 2

\* C6: for an identifier that no point of the snapshot has, __contains__ is
\* false, __getitem__ raises KeyError, get(id, D) returns D, and the call
\* changes no cache slot.
C6_AbsentIdentifier ==
    (/\ constructed
     /\ ret.self \in PointViews
     /\ ret.op \in {"__contains__", "__getitem__", "get"}
     /\ ret.arg[1] \notin PointIds)
    => /\ ret.filled = {}
       /\ ret.op = "__contains__" => (ret.status = "ok" /\ ret.val = <<FALSE>>)
       /\ ret.op = "__getitem__" => (ret.status = "KeyError" /\ ret.val = <<>>)
       /\ ret.op = "get" => (ret.status = "ok" /\ ret.val = <<Default>>)

\* get() of an absent identifier on a graph that has points, one already cached
C6_Witness ==
    /\ constructed /\ Len(gmap.points) >= 1
    /\ ret.self \in PointViews /\ ret.op = "get"
    /\ ret.arg[1] \notin PointIds
    /\ \E i \in 1..n_points : Truthy(utm_points[i])

\* C7: _get_point_with_utm with a raw index outside [0, n_points), negative
\* ones included, raises IndexError, returns nothing and changes no slot.
C7_RawIndexBoundsChecked ==
    (/\ constructed
     /\ ret.op = "_get_point_with_utm"
     /\ (ret.arg[1] < 0 \/ ret.arg[1] >= n_points))
    => (ret.status = "IndexError" /\ ret.val = <<>> /\ ret.filled = {})

\* C8: len(view) is the number of points of the snapshot, and a loop over
\* the point view gets the WuPoints of points 0, 1, ... in that order, never
\* fails, and has got all n_points of them when next() raises StopIteration.
\* (Stated for every snapshot; unique identifiers are not needed.)
C8_LengthAndSnapshotOrder ==
    constructed =>
        /\ (ret.op = "__len__" /\ ret.self \in PointViews)
              => ret.val = <<Len(gmap.points)>>
        /\ loops[1].view \in PointViews =>
              /\ loops[1].state # "failed"
              /\ IsPrefix(loops[1].got, AllWuPoints)
              /\ loops[1].state = "done" => loops[1].got = AllWuPoints

\* a finished loop over a snapshot of two or more uniquely named points,
\* followed by len()
C8_Witness ==
    /\ constructed /\ UniqueIds(gmap.points) /\ Len(gmap.points) >= 2
    /\ loops[1].view \in PointViews /\ loops[1].state = "done"
    /\ Len(loops[1].got) = Len(gmap.points)
    /\ ret.op = "__len__" /\ ret.self \in PointViews

\* C9: a loop over a point view or a feature view, whatever cursor an
\* earlier loop left on the view (none, part-way, exhausted): __iter__ puts
\* the cursor at 0, the cursor is always the number of elements the loop
\* has got, these are the first elements of the snapshot in order, and at
\* StopIteration they are all of them.
C9_Restartable ==
    /\ ret.op = "__iter__" => (iter_index[ret.self] = 0 /\ loops[ret.arg[1]].got = <<>>)
    /\ \A c \in Loops :
          loops[c].state # "idle" =>
              /\ loops[c].state # "failed"
              /\ iter_index[loops[c].view] = Len(loops[c].got)
              /\ IsPrefix(loops[c].got, ViewElements(loops[c].view))
              /\ loops[c].state = "done" => loops[c].got = ViewElements(loops[c].view)

\* a loop that ran to the end although it began on a view whose earlier
\* loop had been abandoned part-way
C9_Witness ==
    \E c \in Loops :
        /\ loops[c].state = "done"
        /\ Len(loops[c].got) >= 2
        /\ began[c] # <<>>
        /\ began[c][1] > 0
        /\ began[c][1] < Len(ViewElements(loops[c].view))

\* C10: a step that is a call on a feature view (__contains__, __getitem__,
\* __len__, __iter__, next) changes no cache slot and calls no projector.
C10_FeatureViewLeavesCache ==
    [][ret'.self \in FeatureViews => UNCHANGED cacheVars]_vars

\* a feature delivered by next() while the cache holds a projected point
C10_Witness ==
    /\ ret.self \in FeatureViews /\ ret.op = "next" /\ ret.status = "ok"
    /\ \E i \in 1..n_points : Truthy(utm_points[i])

\* table maps exactly the identifiers of entities, each to its 0-based
\* position, one identifier per position
IsIndexOf(table, entities) ==
    /\ DOMAIN table = {entities[i].id : i \in 1..Len(entities)}
    /\ \A i \in 1..Len(entities) : table[entities[i].id] = i - 1
    /\ {table[k] : k \in DOMAIN table} = 0..(Len(entities) - 1)
    /\ Cardinality(DOMAIN table) = Len(entities)

\* C11: once the graph is constructed, and after any later call, the point
\* symbol table (for unique point identifiers) and the feature symbol table
\* (for unique feature identifiers) are the bijection identifier <-> position
\* 0..n-1 with entities[table[id]].id = id.
C11_IndexesAreStableBijections ==
    constructed =>
        /\ UniqueIds(gmap.points) => IsIndexOf(way_point_ids, gmap.points)
        /\ UniqueIds(gmap.features) => IsIndexOf(feature_ids, gmap.features)

\* two uniquely named points and features, after retrievals that filled the cache
C11_Witness ==
    /\ constructed
    /\ UniqueIds(gmap.points) /\ Len(gmap.points) >= 2
    /\ UniqueIds(gmap.features) /\ Len(gmap.features) >= 2
    /\ ret.op \in {"get", "next", "header"}
    /\ \A i \in 1..n_points : Truthy(utm_points[i])

\* the positions of the tags of f whose key is in tag_set
Hits(f, tag_set) == {k \in 1..Len(f.tags) : f.tags[k].key \in tag_set}

\* C12: match_tags(f, tag_set) returns False when no tag key of f is in
\* tag_set, and otherwise (key, value) of the earliest such tag in f.tags:
\* no tag before it has its key in tag_set.
C12_MatchTagsFirstInSequence ==
    ret.op = "match_tags" =>
        LET f == gmap.features[ret.arg[1]]
            hits == Hits(f, ret.arg[2])
        IN IF hits = {}
           THEN ret.val = <<FALSE>>
           ELSE \E k \in hits :
                   /\ \A j \in hits : k <= j
                   /\ ret.val = << <<f.tags[k].key, f.tags[k].value>> >>

\* tags [bridge=yes, highway=primary] matched against road_tags give (bridge, yes)
C12_Witness ==
    /\ ret.op = "match_tags"
    /\ gmap.features[ret.arg[1]].tags = RoadTags
    /\ ret.arg[2] = road_tags
    /\ ret.val = << <<"bridge", "yes">> >>

\* C13: no step changes the snapshot (points, features, header, bounds),
\* and bounds() and header() return the snapshot's bounds and header.
C13_SnapshotNeverMutated ==
    [][/\ gmap' = gmap
       /\ ret'.op = "bounds" => ret'.val = <<gmap.bounds>>
       /\ ret'.op = "header" => ret'.val = <<gmap.header>>]_vars

\* bounds() called after retrievals have filled the whole cache of a
\* snapshot with points and features
C13_Witness ==
    /\ constructed /\ ret.op = "bounds"
    /\ Len(gmap.points) >= 2 /\ Len(gmap.features) >= 2
    /\ \A i \in 1..n_points : Truthy(utm_points[i])
    /\ loops[1].state = "done"

C15_GetAgreesWithLookup ==
    (/\ constructed
     /\ ret.op = "get" /\ ret.self \in PointViews
     /\ ret.arg[1] \in DOMAIN way_point_ids)
    => /\ ret.status = "ok"
       /\ ret.val # <<Default>>
       /\ ret.val = <<Projected(way_point_ids[ret.arg[1]] + 1)>>
       /\ ret.val = GeoGraphPoints_getitem(way_point_ids, gmap.points, utm_points,
                                           ret.arg[1]).val

\* get() of the identifier whose table position is 0
C15_Witness ==
    /\ constructed /\ Len(gmap.points) >= 2
    /\ ret.op = "get" /\ ret.self \in PointViews
    /\ ret.arg[1] \in DOMAIN way_point_ids
    /\ way_point_ids[ret.arg[1]] = 0
    /\ ret.status = "ok" /\ ret.val = <<Projected(1)>>

\* One step, seen from the cache: construction leaves every slot empty; a
\* populated slot holds the projection of its point's position and keeps it;
\* and a slot becomes populated only in a call on one of `callers` that
\* returned the WuPoint of that slot's point.
SlotStep(callers) ==
    /\ ret'.op = "GeoGraph" => \A i \in 1..Len(utm_points') : ~Truthy(utm_points'[i])
    /\ \A i \in 1..Len(utm_points') :
          /\ Truthy(utm_points'[i]) =>
                utm_points'[i] = <<project(gmap.points[i].position)>>
          /\ (i \in DOMAIN utm_points /\ Truthy(utm_points[i])) =>
                utm_points'[i] = utm_points[i]
          /\ (i \in DOMAIN utm_points /\ ~Truthy(utm_points[i]) /\ Truthy(utm_points'[i])) =>
                /\ ret'.self \in callers
                /\ ret'.status = "ok"
                /\ ret'.val = <<Projected(i)>>

\* C16 as stated: the cache invariant, a slot being populated only by a
\* lookup, a get() or an iteration step of a point view.  Calls with a
\* negative raw index (C7) are left aside, so that what refutes it is a call
\* with an index in range.
C16_FilledOnlyThroughPointView ==
    [][\/ (ret'.op = "_get_point_with_utm" /\ ret'.arg[1] < 0)
       \/ SlotStep(PointViews)]_vars

\* C16: the cache invariant, a slot being populated only by a lookup, a
\* get() or an iteration step of a point view, or by a direct call of
\* GeoGraph._get_point_with_utm, the method those three delegate to.
C16_CacheInvariant ==
    [][SlotStep(PointViews \cup {"graph"})]_vars

\* a slot filled by a direct call while another one was filled before
C16_Witness ==
    /\ constructed /\ n_points >= 2
    /\ ret.op = "_get_point_with_utm" /\ ret.status = "ok"
    /\ ret.filled # {}
    /\ \E i \in 1..n_points : i \notin ret.filled /\ Truthy(utm_points[i])

\* the cache of an implementation that projects every point at construction
EagerCache == [i \in 1..Len(gmap.points) |-> <<project(gmap.points[i].position)>>]

\* what the last call on the graph or on a point view returns when it runs
\* on the eager cache
EagerOutcome ==
    IF ret.op = "__getitem__"
    THEN GeoGraphPoints_getitem(way_point_ids, gmap.points, EagerCache, ret.arg[1])
    ELSE IF ret.op = "get"
    THEN GeoGraphPoints_get(way_point_ids, gmap.points, EagerCache, ret.arg[1], Default)
    ELSE IF ret.op = "_get_point_with_utm"
    THEN get_point_with_utm(gmap.points, EagerCache, ret.arg[1])
    ELSE GeoGraphPoints_next(IF ret.status = "ok" THEN iter_index[ret.self] - 1
                             ELSE iter_index[ret.self],
                             n_points, gmap.points, EagerCache).out

\* C17: whatever was called before and in whatever order, a lookup, a
\* get(), an iteration step or a direct retrieval ends the way it ends on an
\* eagerly filled cache and returns the same value.
C17_LazyCacheUnobservable ==
    (/\ constructed
     /\ ret.self \in PointViews \cup {"graph"}
     /\ ret.op \in PointRetrievals \cup {"_get_point_with_utm"})
    => /\ ret.status = EagerOutcome.status
       /\ ret.val = EagerOutcome.val

\* an iteration step answered from a slot that an earlier call filled, on a
\* snapshot whose points project differently
C17_Witness ==
    /\ constructed /\ Len(gmap.points) >= 2
    /\ project(gmap.points[1].position) # project(gmap.points[2].position)
    /\ ret.op = "next" /\ ret.self \in PointViews
    /\ ret.status = "ok" /\ ret.filled = {}
    /\ ret.val = <<Projected(2)>>

\* C18: the cursor of a view that has been iterated stays in 0..n; a next()
\* called with the cursor below n succeeds, moves the cursor by exactly 1
\* and hands the loop one element; a next() called with the cursor at n
\* raises StopIteration, returns nothing, hands the loop nothing and leaves
\* the cursor at n, however often it is called.
C18_CursorStaysInRange ==
    [][/\ \A v \in DOMAIN iter_index' :
             0 <= iter_index'[v] /\ iter_index'[v] <= ViewSize(v)
       /\ ret'.op = "next" =>
             IF iter_index[ret'.self] < ViewSize(ret'.self)
             THEN /\ ret'.status = "ok"
                  /\ iter_index'[ret'.self] = iter_index[ret'.self] + 1
                  /\ Len(loops'[ret'.arg[1]].got) = Len(loops[ret'.arg[1]].got) + 1
             ELSE /\ ret'.status = "StopIteration"
                  /\ ret'.val = <<>>
                  /\ iter_index'[ret'.self] = iter_index[ret'.self]
                  /\ loops'[ret'.arg[1]].got = loops[ret'.arg[1]].got]_vars

\* StopIteration from a feature view of two features, its cursor at 2
C18_Witness ==
    /\ ret.op = "next" /\ ret.status = "StopIteration"
    /\ ret.self \in FeatureViews
    /\ n_features >= 2
    /\ iter_index[ret.self] = n_features

\* C19: with two loops on two distinct view objects, taking their steps in
\* any order, an __iter__ or next() of one loop changes neither the other
\* loop's cursor nor what the other loop has been handed; no loop fails,
\* each has been handed a prefix of its view's elements in snapshot order,
\* and a loop that has ended has been handed all of them, each once.
C19_DistinctViewsDoNotInterfere ==
    [][/\ ret'.op \in {"__iter__", "next"} =>
             \A d \in Loops \ {ret'.arg[1]} :
                 /\ loops'[d] = loops[d]
                 /\ loops[d].state # "idle" =>
                        /\ loops[d].view # ret'.self
                        /\ iter_index'[loops[d].view] = iter_index[loops[d].view]
       /\ \A c \in Loops :
             loops'[c].state # "idle" =>
                 /\ loops'[c].state # "failed"
                 /\ IsPrefix(loops'[c].got, ViewElements(loops'[c].view))
                 /\ loops'[c].state = "done" =>
                        loops'[c].got = ViewElements(loops'[c].view)]_vars

\* loop 1 has just ended with both points of its view while loop 2 is
\* part-way through another view
C19_Witness ==
    /\ ret.op = "next" /\ ret.arg = <<1>> /\ ret.status = "StopIteration"
    /\ loops[1].state = "done" /\ loops[1].view = "P1"
    /\ Len(loops[1].got) >= 2
    /\ loops[2].state = "running" /\ loops[2].view = "P2"
    /\ Len(loops[2].got) > 0
    /\ Len(loops[2].got) < n_points
====
